---- MODULE Spec2Model ----
(***************************************************************************)
(* Model of investigate_stream.py: the four ledger tables, the prompt      *)
(* template, extract_section, and the two Streamlit tabs (single           *)
(* transaction, batch upload) executed top to bottom by one script run.    *)
(*                                                                         *)
(* Texts are sequences of tokens.  A token is one character class ("a" a   *)
(* lower-case letter, "A" an upper-case letter, "1" a character that is    *)
(* neither a letter nor white space, " " a blank, "\n" a line break, ":"   *)
(* a colon) or one whole word or literal that the code treats as a unit    *)
(* (a section label, a noise phrase, a Python literal).                    *)
(***************************************************************************)
EXTENDS Naturals, Sequences, FiniteSets

VARIABLES
    cbs, mpesa, switch, disb,   \* the four ledger tables (load_data)
    txn_input,                  \* st.text_input value of tab1 ("" = empty)
    upload,                     \* st.file_uploader value of tab2
    pc,                         \* position of the script run
    idx,                        \* index of the batch row being processed
    rows,                       \* cbs_row, mpesa_row, switch_row, disb_row
    args,                       \* the dict handed to chain.invoke
    results,                    \* the results list
    ridx,                       \* index of the result row being rendered
    calls,                      \* log of chain.invoke calls
    lookups,                    \* log of get_row rounds
    errors,                     \* log of st.error reports
    shown,                      \* log of rendered reports (text_area)
    keys,                       \* widget keys registered in this run
    status,                     \* per transaction state (0 = tab1, i = batch row i)
    run,                        \* number of the script run in the session
    watch,                      \* one error report remembered from an earlier run
    stub,                       \* what the generation service may answer
    text, interiors, missing,   \* a reply text and how it was composed
    extracted                   \* the values extract_section returned for it

vars == <<cbs, mpesa, switch, disb, txn_input, upload, pc, idx, rows, args,
          results, ridx, calls, lookups, errors, shown, keys, status, run,
          watch, stub, text, interiors, missing, extracted>>

storeVars == <<cbs, mpesa, switch, disb, stub>>
runVars   == <<txn_input, upload, pc, idx, rows, args, results, ridx, calls,
               lookups, errors, shown, keys, status, run, watch>>
textVars  == <<text, interiors, missing, extracted>>

(***************************************************************************)
(* Bounds                                                                  *)
(***************************************************************************)
MaxInterior == 2      \* tokens in the section interior that is varied
MaxBatch == 2         \* rows of an uploaded table
MaxStoreRows == 4     \* rows of the four ledgers together (prompt checks)
MaxRuns == 2          \* script runs of one session

(***************************************************************************)
(* Texts                                                                   *)
(***************************************************************************)
Labels == <<"root_cause", "confidence_score", "next_steps", "summary_report", "records">>

LabelSet == {Labels[i] : i \in 1..Len(Labels)}

\* The placeholder extract_section returns when the label is not found.
Placeholder == <<"-">>

\* re.IGNORECASE: the one capitalised word of the alphabet and its lower case.
Lower(tok) == IF tok = "Records" THEN "records" ELSE tok

\* Mutant: [A-Z] without re.IGNORECASE.
IsLetter_CaseSensitive(tok) == tok \in {"A", "Records"}

\* [A-Z] under re.IGNORECASE: any token whose first character is a letter.
IsLetter(tok) ==
    tok \in {"a", "A", "Records", "output", "Here is the solution", "nan", "None"}
            \cup LabelSet

\* The characters str.strip() removes.
IsSpace(tok) == tok \in {" ", "\n"}

\* Index of the leftmost "label:" in t, 0 when there is none (re.search).
FindLabel(label, t) ==
    LET hits == {i \in 1..(Len(t) - 1) : Lower(t[i]) = label /\ t[i + 1] = ":"}
    IN  IF hits = {} THEN 0 ELSE CHOOSE i \in hits : \A k \in hits : i <= k

\* (?=\n[A-Z]|$): the lookahead succeeds at position p (the first token that
\* is not captured) before a line break followed by a letter, at the end of
\* the text, and before a line break that ends the text.
BoundaryAt(t, p) ==
    \/ p = Len(t) + 1
    \/ p = Len(t) /\ t[p] = "\n"
    \/ p < Len(t) /\ t[p] = "\n" /\ IsLetter(t[p + 1])

\* Mutant: a greedy (.*), which runs to the end of the text.
CaptureEnd_Greedy(t, s) == Len(t) + 1

\* (.*?) with re.DOTALL: the shortest capture from s that ends at a boundary.
CaptureEnd(t, s) ==
    CHOOSE p \in s..(Len(t) + 1) :
        /\ BoundaryAt(t, p)
        /\ \A q \in s..(Len(t) + 1) : BoundaryAt(t, q) => p <= q

\* str.strip()
Strip(t) ==
    LET keep == {i \in 1..Len(t) : ~IsSpace(t[i])}
    IN  IF keep = {} THEN <<>>
        ELSE LET lo == CHOOSE i \in keep : \A k \in keep : i <= k
                 hi == CHOOSE i \in keep : \A k \in keep : k <= i
             IN  SubSeq(t, lo, hi)

extract_section(label, t) ==
    LET at == FindLabel(label, t)
    IN  IF at = 0 THEN Placeholder
        ELSE Strip(SubSeq(t, at + 2, CaptureEnd(t, at + 2) - 1))

\* A reply: for each present label, in order, a line "label:" + interior.
RECURSIVE BuildFrom(_, _, _)
BuildFrom(ints, gone, i) ==
    IF i > Len(Labels) THEN <<>>
    ELSE LET rest == BuildFrom(ints, gone, i + 1)
         IN  IF i = gone THEN rest
             ELSE <<Labels[i], ":">> \o ints[i]
                  \o (IF rest = <<>> THEN <<>> ELSE <<"\n">> \o rest)

Build(ints, gone) == BuildFrom(ints, gone, 1)

\* str.replace(tok, "")
RECURSIVE Remove1(_, _)
Remove1(t, tok) ==
    IF t = <<>> THEN <<>>
    ELSE IF Head(t) = tok THEN Remove1(Tail(t), tok)
    ELSE <<Head(t)>> \o Remove1(Tail(t), tok)

\* str.replace(word + ":", ""), scanning from the left
RECURSIVE Remove2(_, _)
Remove2(t, word) ==
    IF t = <<>> THEN <<>>
    ELSE IF Len(t) >= 2 /\ t[1] = word /\ t[2] = ":" THEN Remove2(Tail(Tail(t)), word)
    ELSE <<Head(t)>> \o Remove2(Tail(t), word)

\* The three output.replace calls that follow chain.invoke.
Normalize(output) ==
    Remove2(Remove2(Remove1(output, "<fence>"), "output"), "Here is the solution")

\* records_str.replace("nan", "None")
NanToNone(t) ==
    [i \in 1..Len(t) |->
        IF t[i] = "nan" THEN "None"
        ELSE IF t[i] = "{d:nan}" THEN "{d:None}"
        ELSE t[i]]

\* ast.literal_eval followed by records_dict.items(): "mapping" when the
\* text is one dict literal, "nonmapping" when it is another literal (items()
\* raises AttributeError), "error" when literal_eval raises.
LiteralEval(t) ==
    IF Len(t) = 1 /\ t[1] \in {"{d}", "{d:None}"} THEN "mapping"
    ELSE IF Len(t) = 1 /\ t[1] \in {"[l]", "1", "None"} THEN "nonmapping"
    ELSE "error"

\* The exception the parse of a records text ends with: items() of a value
\* that is no dict, a lone name or a dict holding one (malformed node), or
\* text that is no expression at all.
ParseError(t) ==
    IF LiteralEval(t) = "nonmapping" THEN "AttributeError"
    ELSE IF Len(t) = 1 /\ (IsLetter(t[1]) \/ t[1] = "{d:nan}") THEN "ValueError"
    ELSE "SyntaxError"

\* Mutant: the sections are extracted from the reply as it came.
ParseReply_Raw(txn_id, output) ==
    [txn_id           |-> txn_id,
     root_cause       |-> extract_section("root_cause", output),
     confidence_score |-> extract_section("confidence_score", output),
     next_steps       |-> extract_section("next_steps", output),
     summary_report   |-> extract_section("summary_report", output),
     records          |-> extract_section("records", output)]

\* The five extract_section calls and the dict appended to results.
ParseReply(txn_id, output) ==
    LET out == Normalize(output)
    IN  [txn_id           |-> txn_id,
         root_cause       |-> extract_section("root_cause", out),
         confidence_score |-> extract_section("confidence_score", out),
         next_steps       |-> extract_section("next_steps", out),
         summary_report   |-> extract_section("summary_report", out),
         records          |-> extract_section("records", out)]

(***************************************************************************)
(* Ledgers and the prompt                                                  *)
(***************************************************************************)
NA == "N/A"

Row(id, v) == [txn_id |-> id, val |-> v]

\* df[df["txn_id"] == txn_id].to_dict(orient="records")
get_row(df, txn_id) == SelectSeq(df, LAMBDA r : r.txn_id = txn_id)

\* str(row): the text of the record's dict.
Str(r) == <<"{'txn_id': ", r.txn_id, ", 'val': ", r.val, "}">>

\* Mutant: a missing M-Pesa record leaves its slot empty.
InvokeArgs_Omit(txn_id, found) ==
    [txn_id |-> txn_id,
     cbs    |-> Str(found.cbs[1]),
     mpesa  |-> IF found.mpesa # <<>> THEN Str(found.mpesa[1]) ELSE <<>>,
     switch |-> IF found.switch # <<>> THEN Str(found.switch[1]) ELSE <<NA>>,
     disb   |-> IF found.disb # <<>> THEN Str(found.disb[1]) ELSE <<NA>>]

\* The dict passed to chain.invoke, built from the four lookups.
InvokeArgs(txn_id, found) ==
    [txn_id |-> txn_id,
     cbs    |-> Str(found.cbs[1]),
     mpesa  |-> IF found.mpesa # <<>> THEN Str(found.mpesa[1]) ELSE <<NA>>,
     switch |-> IF found.switch # <<>> THEN Str(found.switch[1]) ELSE <<NA>>,
     disb   |-> IF found.disb # <<>> THEN Str(found.disb[1]) ELSE <<NA>>]

\* PromptTemplate.format: the fixed text around the five input variables.
TplHead == "You are a banking operations assistant. [...] Transaction ID: "
TplCbs == "CBS:"
TplMpesa == "M-Pesa:"
TplSwitch == "Switch Logs:"
TplDisb == "Disbursement API:"
TplTail == "CBS is the main system [...] do not output python code"

prompt(a) ==
    <<TplHead, a.txn_id>>
    \o <<TplCbs>> \o a.cbs
    \o <<TplMpesa>> \o a.mpesa
    \o <<TplSwitch>> \o a.switch
    \o <<TplDisb>> \o a.disb
    \o <<TplTail>>

\* Number of tokens of t that are the marker "N/A".
CountNA(t) == Cardinality({i \in 1..Len(t) : t[i] = NA})

\* Mutant: the CBS lookup reads the switch log.
Lookup_WrongTable(txn_id) ==
    [cbs    |-> get_row(switch, txn_id),
     mpesa  |-> get_row(mpesa, txn_id),
     switch |-> get_row(switch, txn_id),
     disb   |-> get_row(disb, txn_id)]

\* The four get_row calls of lines 116-119 and 210-213.
Lookup(txn_id) ==
    [cbs    |-> get_row(cbs, txn_id),
     mpesa  |-> get_row(mpesa, txn_id),
     switch |-> get_row(switch, txn_id),
     disb   |-> get_row(disb, txn_id)]

NoRows == [cbs |-> <<>>, mpesa |-> <<>>, switch |-> <<>>, disb |-> <<>>]
NoArgs == [txn_id |-> "", cbs |-> <<>>, mpesa |-> <<>>, switch |-> <<>>, disb |-> <<>>]

(***************************************************************************)
(* Inputs                                                                  *)
(***************************************************************************)
TxnIds == {"T1", "T2", "T3"}

\* The session's ledger files: T1 is in every ledger (twice in CBS), T2 in
\* CBS and the switch log only, T3 in every ledger but CBS.
DataCbs    == <<Row("T1", "ok"), Row("T2", "ok"), Row("T1", "late")>>
DataMpesa  == <<Row("T3", "ok"), Row("T1", "ok")>>
DataSwitch == <<Row("T1", "ok"), Row("T2", "ok"), Row("T3", "ok")>>
DataDisb   == <<Row("T1", "ok"), Row("T3", "ok")>>

\* All sequences over S of length at most n.
SeqUpTo(S, n) == UNION {[1..k -> S] : k \in 0..n}

\* Ledger contents for the prompt checks: any four tables over two ids and
\* two field values, one of which is the text "N/A" itself.
PromptIds == {"T1", "T2"}
PromptRows == {Row(id, v) : id \in PromptIds, v \in {"ok", NA}}
PromptTables == SeqUpTo(PromptRows, MaxStoreRows)

\* Uploaded tables: unreadable, or a CSV with or without a txn_id column.
NoUpload == [kind |-> "none", has_txn_id |-> FALSE, ids |-> <<>>]
Uploads ==
    {[kind |-> "unreadable", has_txn_id |-> FALSE, ids |-> <<>>]}
    \cup {[kind |-> "csv", has_txn_id |-> h, ids |-> s] :
             h \in BOOLEAN, s \in SeqUpTo(TxnIds, MaxBatch)}

\* Replies of the generation service.
GoodInteriors ==
    <<(<<" ", "a">>), (<<" ", "1">>), (<<" ", "a">>), (<<" ", "a">>), (<<" ", "{d}">>)>>

WithRecords(r) == [GoodInteriors EXCEPT ![5] = r]

ReplyGood == Build(GoodInteriors, 0)
ReplyNoisy ==
    <<"<fence>", "Here is the solution", ":", "\n">>
    \o Build(WithRecords(<<" ", "{d:nan}">>), 0) \o <<"\n", "<fence>">>
ReplyBadRecords == Build(WithRecords(<<" ", "a">>), 0)
ReplyListRecords == Build(WithRecords(<<" ", "[l]">>), 0)
ReplyNoRecords == Build(GoodInteriors, 5)

Replies == {ReplyGood, ReplyNoisy, ReplyBadRecords, ReplyListRecords, ReplyNoRecords}

\* chain.invoke either returns a reply or raises; what it raises is up to the
\* service client (langchain's Bedrock wraps service errors in ValueError).
Failures == {<<"raised", "ValueError">>, <<"raised", "TimeoutError">>}
IsRaised(out) == out \in Failures
Outcomes == Replies \cup Failures

(***************************************************************************)
(* The script run                                                          *)
(***************************************************************************)
MsgNotFound == "Transaction ID not found in CBS data."
MsgInvestigationFailed == "Investigation failed."
MsgErrorProcessing == "Error during processing."
MsgNoColumn == "CSV must contain a column named 'txn_id'."
MsgFileFailed == "Failed to process uploaded file."

\* One st.error report.  path, item (0 = tab1 or the upload itself, i = batch
\* row i) and kind record where and why the report was made; the user sees msg.
\* exc is the exception st.exception shows below it ("" when there is none).
Err(path, item, msg, exc, kind) ==
    [path |-> path, item |-> item, msg |-> msg, exc |-> exc, kind |-> kind]

NoWatch == [msg |-> "", exc |-> "", kind |-> ""]

\* Mutant: the column check is skipped.
HasTxnIdColumn_Skipped(u) == TRUE

\* "txn_id" in df_uploaded.columns
HasTxnIdColumn(u) == u.has_txn_id

\* Mutant: the new result is put in front of the list.
AppendResult_Front(res, rec) == <<rec>> \o res

\* results.append
AppendResult(res, rec) == Append(res, rec)

\* One chain.invoke call as a stub generation client records it.
Call(path, item, a, out) ==
    [path |-> path, item |-> item, txn_id |-> a.txn_id, prompt |-> prompt(a),
     reply |-> out]

\* The batch row whose reply is the j-th entry of results.
Generated(i) == status[i] \in {"GENERATED", "PARSED", "PARSE_FAILED"}
Origin(j) ==
    CHOOSE i \in 1..Len(upload.ids) :
        Generated(i) /\ Cardinality({k \in 1..i : Generated(k)}) = j

IdleRun ==
    /\ idx = 0
    /\ rows = NoRows
    /\ args = NoArgs
    /\ results = <<>>
    /\ ridx = 0
    /\ calls = <<>>
    /\ lookups = <<>>
    /\ errors = <<>>
    /\ shown = <<>>
    /\ keys = {}
    /\ status = [i \in 0..Len(upload.ids) |-> "PENDING"]

NoText ==
    /\ text = <<>>
    /\ interiors = <<>>
    /\ missing = 0
    /\ extracted = <<>>

Init ==
    /\ cbs = DataCbs
    /\ mpesa = DataMpesa
    /\ switch = DataSwitch
    /\ disb = DataDisb
    /\ stub = Outcomes
    /\ txn_input \in {""} \cup TxnIds
    /\ upload \in {NoUpload} \cup Uploads
    /\ pc = "tab1"
    /\ run = 1
    /\ watch = NoWatch
    /\ IdleRun
    /\ NoText

\* tab1, lines 112-119: the text input and the four lookups.
Tab1Start ==
    /\ pc = "tab1"
    /\ IF txn_input = ""
       THEN /\ pc' = "tab2"
            /\ UNCHANGED <<results, rows, lookups, status>>
       ELSE /\ results' = <<>>
            /\ rows' = Lookup(txn_input)
            /\ lookups' = Append(lookups, [path |-> "single", txn_id |-> txn_input])
            /\ status' = [status EXCEPT ![0] = "LOOKED_UP"]
            /\ pc' = "tab1_check"
    /\ UNCHANGED <<storeVars, textVars, txn_input, upload, idx, args, ridx,
                   calls, errors, shown, keys, run, watch>>

\* tab1, lines 122-133: the CBS check and the arguments of chain.invoke.
Tab1Check ==
    /\ pc = "tab1_check"
    /\ IF rows.cbs = <<>>
       THEN /\ errors' = Append(errors, Err("single", 0, MsgNotFound, "", "NotFound"))
            /\ status' = [status EXCEPT ![0] = "NOT_FOUND"]
            /\ pc' = "tab2"
            /\ UNCHANGED args
       ELSE /\ args' = InvokeArgs(txn_input, rows)
            /\ status' = [status EXCEPT ![0] = "EVIDENCE_BUILT"]
            /\ pc' = "tab1_invoke"
            /\ UNCHANGED errors
    /\ UNCHANGED <<storeVars, textVars, txn_input, upload, idx, rows, results,
                   ridx, calls, lookups, shown, keys, run, watch>>

\* tab1, lines 125-152 and 183-185: chain.invoke, the extraction, the append.
Tab1Invoke ==
    /\ pc = "tab1_invoke"
    /\ \E out \in stub :
        /\ calls' = Append(calls, Call("single", 0, args, out))
        /\ IF IsRaised(out)
           THEN /\ errors' = Append(errors,
                        Err("single", 0, MsgInvestigationFailed, out[2], "GenerationFailure"))
                /\ status' = [status EXCEPT ![0] = "GENERATION_FAILED"]
                /\ pc' = "tab2"
                /\ UNCHANGED results
           ELSE /\ results' = AppendResult(results, ParseReply(txn_input, out))
                /\ status' = [status EXCEPT ![0] = "GENERATED"]
                /\ pc' = "tab1_render"
                /\ UNCHANGED errors
    /\ UNCHANGED <<storeVars, textVars, txn_input, upload, idx, rows, args,
                   ridx, lookups, shown, keys, run, watch>>

\* tab1, lines 154-185: the expander, literal_eval and the evidence area.
Tab1Render ==
    /\ pc = "tab1_render"
    /\ LET rec == results[1]
           head == [path |-> "single", txn_id |-> rec.txn_id, part |-> "summary"]
           body == [path |-> "single", txn_id |-> rec.txn_id, part |-> "evidence"]
       IN  IF LiteralEval(NanToNone(rec.records)) = "mapping"
           THEN /\ shown' = shown \o <<head, body>>
                /\ status' = [status EXCEPT ![0] = "PARSED"]
                /\ UNCHANGED errors
           ELSE /\ shown' = Append(shown, head)
                /\ status' = [status EXCEPT ![0] = "PARSE_FAILED"]
                /\ errors' = Append(errors,
                        Err("single", 0, MsgInvestigationFailed,
                            ParseError(NanToNone(rec.records)), "ParseFailure"))
    /\ pc' = "tab2"
    /\ UNCHANGED <<storeVars, textVars, txn_input, upload, idx, rows, args,
                   results, ridx, calls, lookups, keys, run, watch>>

\* tab2, lines 198-207 and 295-297: read_csv and the column check.
Tab2Start ==
    /\ pc = "tab2"
    /\ IF upload.kind = "none"
       THEN /\ pc' = "done"
            /\ UNCHANGED <<results, errors, idx>>
       ELSE /\ results' = <<>>
            /\ IF upload.kind = "unreadable"
               THEN /\ errors' = Append(errors,
                            Err("batch", 0, MsgFileFailed, "ParserError", "InputFailure"))
                    /\ pc' = "done"
                    /\ UNCHANGED idx
               ELSE IF ~HasTxnIdColumn(upload)
               THEN /\ errors' = Append(errors,
                            Err("batch", 0, MsgNoColumn, "", "InputFailure"))
                    /\ pc' = "done"
                    /\ UNCHANGED idx
               ELSE /\ UNCHANGED errors
                    /\ IF upload.ids = <<>>
                       THEN pc' = "done" /\ UNCHANGED idx
                       ELSE pc' = "tab2_lookup" /\ idx' = 1
    /\ UNCHANGED <<storeVars, textVars, txn_input, upload, rows, args, ridx,
                   calls, lookups, shown, keys, status, run, watch>>

\* The end of one iteration of the loop of line 207, and line 254.
NextRow(res) ==
    IF idx < Len(upload.ids)
    THEN idx' = idx + 1 /\ pc' = "tab2_lookup" /\ UNCHANGED ridx
    ELSE /\ UNCHANGED idx
         /\ IF res # <<>>
            THEN pc' = "tab2_render" /\ ridx' = 1
            ELSE pc' = "done" /\ UNCHANGED ridx

\* tab2, lines 207-213: the row's txn_id and the four lookups.
Tab2Lookup ==
    /\ pc = "tab2_lookup"
    /\ rows' = Lookup(upload.ids[idx])
    /\ lookups' = Append(lookups, [path |-> "batch", txn_id |-> upload.ids[idx]])
    /\ status' = [status EXCEPT ![idx] = "LOOKED_UP"]
    /\ pc' = "tab2_check"
    /\ UNCHANGED <<storeVars, textVars, txn_input, upload, idx, args, results,
                   ridx, calls, errors, shown, keys, run, watch>>

\* tab2, lines 219-230: the CBS check and the arguments of chain.invoke.
Tab2Check ==
    /\ pc = "tab2_check"
    /\ IF rows.cbs = <<>>
       THEN /\ errors' = Append(errors, Err("batch", idx, MsgNotFound, "", "NotFound"))
            /\ status' = [status EXCEPT ![idx] = "NOT_FOUND"]
            /\ NextRow(results)
            /\ UNCHANGED args
       ELSE /\ args' = InvokeArgs(upload.ids[idx], rows)
            /\ status' = [status EXCEPT ![idx] = "EVIDENCE_BUILT"]
            /\ pc' = "tab2_invoke"
            /\ UNCHANGED <<errors, idx, ridx>>
    /\ UNCHANGED <<storeVars, textVars, txn_input, upload, rows, results,
                   calls, lookups, shown, keys, run, watch>>

\* Mutant: a failed call is reported and then made again.
Tab2Invoke_Retry ==
    /\ pc = "tab2_invoke"
    /\ \E out \in stub :
        /\ calls' = Append(calls, Call("batch", idx, args, out))
        /\ IF IsRaised(out)
           THEN /\ errors' = Append(errors,
                        Err("batch", idx, MsgErrorProcessing, out[2], "GenerationFailure"))
                /\ status' = [status EXCEPT ![idx] = "GENERATION_FAILED"]
                /\ UNCHANGED <<results, pc, idx, ridx>>
           ELSE /\ results' = AppendResult(results, ParseReply(upload.ids[idx], out))
                /\ status' = [status EXCEPT ![idx] = "GENERATED"]
                /\ UNCHANGED errors
                /\ NextRow(results')
    /\ UNCHANGED <<storeVars, textVars, txn_input, upload, rows, args,
                   lookups, shown, keys, run, watch>>

\* tab2, lines 222-252: chain.invoke, the extraction, the append.
Tab2Invoke ==
    /\ pc = "tab2_invoke"
    /\ \E out \in stub :
        /\ calls' = Append(calls, Call("batch", idx, args, out))
        /\ IF IsRaised(out)
           THEN /\ errors' = Append(errors,
                        Err("batch", idx, MsgErrorProcessing, out[2], "GenerationFailure"))
                /\ status' = [status EXCEPT ![idx] = "GENERATION_FAILED"]
                /\ UNCHANGED results
           ELSE /\ results' = AppendResult(results, ParseReply(upload.ids[idx], out))
                /\ status' = [status EXCEPT ![idx] = "GENERATED"]
                /\ UNCHANGED errors
        /\ NextRow(results')
    /\ UNCHANGED <<storeVars, textVars, txn_input, upload, rows, args,
                   lookups, shown, keys, run, watch>>

\* tab2, lines 268-297: one row of the summary, its detailed report, and the
\* outer except that ends the script when literal_eval, items() or the keyed
\* text_area (a key already registered in this run) raises.
Tab2Render ==
    /\ pc = "tab2_render"
    /\ LET rec == results[ridx]
           o == Origin(ridx)
           head == [path |-> "batch", txn_id |-> rec.txn_id, part |-> "summary"]
           body == [path |-> "batch", txn_id |-> rec.txn_id, part |-> "evidence"]
       IN  IF LiteralEval(NanToNone(rec.records)) # "mapping"
           THEN /\ shown' = Append(shown, head)
                /\ status' = [status EXCEPT ![o] = "PARSE_FAILED"]
                /\ errors' = Append(errors,
                        Err("batch", o, MsgFileFailed,
                            ParseError(NanToNone(rec.records)), "ParseFailure"))
                /\ pc' = "done"
                /\ UNCHANGED <<keys, ridx>>
           ELSE IF rec.txn_id \in keys
           THEN /\ shown' = Append(shown, head)
                /\ status' = [status EXCEPT ![o] = "PARSED"]
                /\ errors' = Append(errors,
                        Err("batch", o, MsgFileFailed, "DuplicateWidgetID", "DuplicateWidget"))
                /\ pc' = "done"
                /\ UNCHANGED <<keys, ridx>>
           ELSE /\ shown' = shown \o <<head, body>>
                /\ status' = [status EXCEPT ![o] = "PARSED"]
                /\ keys' = keys \cup {rec.txn_id}
                /\ UNCHANGED errors
                /\ IF ridx < Len(results)
                   THEN ridx' = ridx + 1 /\ UNCHANGED pc
                   ELSE pc' = "done" /\ UNCHANGED ridx
    /\ UNCHANGED <<storeVars, textVars, txn_input, upload, idx, rows, args,
                   results, calls, lookups, run, watch>>

Next ==
    \/ Tab1Start
    \/ Tab1Check
    \/ Tab1Invoke
    \/ Tab1Render
    \/ Tab2Start
    \/ Tab2Lookup
    \/ Tab2Check
    \/ Tab2Invoke
    \/ Tab2Render

Spec == Init /\ [][Next]_vars

(***************************************************************************)
(* A session: Streamlit runs the script again, from the top and with fresh *)
(* module state, whenever the user changes an input.                       *)
(***************************************************************************)
Rerun ==
    /\ pc = "done"
    /\ run < MaxRuns
    /\ run' = run + 1
    /\ txn_input' \in {""} \cup TxnIds
    /\ upload' \in {NoUpload} \cup Uploads
    /\ watch' \in {watch} \cup
            {[msg |-> errors[k].msg, exc |-> errors[k].exc, kind |-> errors[k].kind] :
                k \in 1..Len(errors)}
    /\ pc' = "tab1"
    /\ idx' = 0
    /\ rows' = NoRows
    /\ args' = NoArgs
    /\ results' = <<>>
    /\ ridx' = 0
    /\ calls' = <<>>
    /\ lookups' = <<>>
    /\ errors' = <<>>
    /\ shown' = <<>>
    /\ keys' = {}
    /\ status' = [i \in 0..Len(upload'.ids) |-> "PENDING"]
    /\ UNCHANGED <<storeVars, textVars>>

SpecSession == Init /\ [][Next \/ Rerun]_vars

(***************************************************************************)
(* The prompt over arbitrary ledger contents: one transaction id, entered  *)
(* in tab1 or uploaded as a one-row table, and a service that answers.     *)
(***************************************************************************)
InitPrompt ==
    /\ \E n \in [1..4 -> 0..MaxStoreRows] :
        /\ n[1] + n[2] + n[3] + n[4] <= MaxStoreRows
        /\ cbs \in [1..n[1] -> PromptRows]
        /\ mpesa \in [1..n[2] -> PromptRows]
        /\ switch \in [1..n[3] -> PromptRows]
        /\ disb \in [1..n[4] -> PromptRows]
    /\ stub = {ReplyGood}
    /\ \E id \in PromptIds :
        \/ txn_input = id /\ upload = NoUpload
        \/ /\ txn_input = ""
           /\ upload = [kind |-> "csv", has_txn_id |-> TRUE, ids |-> <<id>>]
    /\ pc = "tab1"
    /\ run = 1
    /\ watch = NoWatch
    /\ IdleRun
    /\ NoText

SpecPrompt == InitPrompt /\ [][Next]_vars

(***************************************************************************)
(* extract_section over reply texts: the five sections of a well-formed    *)
(* reply, one of them with an arbitrary interior, one possibly left out.   *)
(***************************************************************************)
Alphabet == {"a", "A", "1", " ", "\n", ":", "Records"} \cup LabelSet

InitExtract ==
    /\ cbs = DataCbs
    /\ mpesa = DataMpesa
    /\ switch = DataSwitch
    /\ disb = DataDisb
    /\ stub = Outcomes
    /\ txn_input = ""
    /\ upload = NoUpload
    /\ pc = "extract"
    /\ run = 1
    /\ watch = NoWatch
    /\ IdleRun
    /\ \E f \in 1..Len(Labels), x \in SeqUpTo(Alphabet, MaxInterior) :
        interiors = [GoodInteriors EXCEPT ![f] = x]
    /\ missing \in 0..Len(Labels)
    /\ text = Build(interiors, missing)
    /\ extracted = <<>>

\* Lines 139-143: the five calls, in the order the script makes them.
ExtractNext ==
    /\ pc = "extract"
    /\ Len(extracted) < Len(Labels)
    /\ extracted' = Append(extracted, extract_section(Labels[Len(extracted) + 1], text))
    /\ UNCHANGED <<storeVars, runVars, text, interiors, missing>>

SpecExtract == InitExtract /\ [][ExtractNext]_vars

(***************************************************************************)
(* Properties                                                              *)
(***************************************************************************)
N == Len(upload.ids)

\* The id has a row in the table (stated on the table, not through get_row).
Has(df, id) == \E k \in 1..Len(df) : df[k].txn_id = id

\* The first row of the table with that id.
FirstRow(df, id) ==
    df[CHOOSE k \in 1..Len(df) :
          df[k].txn_id = id /\ \A j \in 1..(k - 1) : df[j].txn_id # id]

\* The id item i stands for: the text input (0) or batch row i.
ItemId(i) == IF i = 0 THEN txn_input ELSE upload.ids[i]

BatchOf(log) == SelectSeq(log, LAMBDA e : e.path = "batch")

IdsOf(log) == [k \in 1..Len(log) |-> log[k].txn_id]

Reported(i, msg) ==
    \E k \in 1..Len(errors) :
        /\ errors[k].item = i
        /\ errors[k].path = (IF i = 0 THEN "single" ELSE "batch")
        /\ errors[k].msg = msg

\* C1: a transaction id without a CBS row never reaches the generation
\* service and never gets an entry in results, in tab1 and in tab2, whatever
\* the other ledgers hold; it ends in NOT_FOUND with the not-found report.
C1_NotFoundNeverGenerated ==
    /\ \A k \in 1..Len(results) : Has(cbs, results[k].txn_id)
    /\ \A k \in 1..Len(calls) : Has(cbs, calls[k].txn_id)
    /\ \A i \in DOMAIN status :
        (status[i] \notin {"PENDING", "LOOKED_UP"} /\ ~Has(cbs, ItemId(i)))
            => status[i] = "NOT_FOUND" /\ Reported(i, MsgNotFound)

C1_Witness ==
    /\ pc = "done"
    /\ status[0] = "NOT_FOUND"
    /\ \E i \in 1..N :
        /\ status[i] = "NOT_FOUND"
        /\ Has(mpesa, ItemId(i)) /\ Has(switch, ItemId(i)) /\ Has(disb, ItemId(i))
    /\ results # <<>>

\* The batch ran over N rows that all have a CBS row, the generation call of
\* row k raised, and every other call returned a well-formed reply.
WellFormedReplies == {ReplyGood, ReplyNoisy}

OneGenerationFailure(k) ==
    /\ pc = "done"
    /\ upload.kind = "csv" /\ upload.has_txn_id
    /\ N >= 2
    /\ \A i \in 1..N : Has(cbs, upload.ids[i])
    /\ status[k] = "GENERATION_FAILED"
    /\ \A c \in 1..Len(calls) :
        (calls[c].path = "batch" /\ calls[c].item # k)
            => calls[c].reply \in WellFormedReplies

IdsWithout(k) ==
    [j \in 1..(N - 1) |-> IF j < k THEN upload.ids[j] ELSE upload.ids[j + 1]]

C3_ParseFailureDoesNotAbort ==
    (pc = "done" /\ \E k \in 1..N : status[k] = "PARSE_FAILED")
        => \A i \in 1..N : status[i] # "GENERATED"

NoColumnUpload == upload.kind = "csv" /\ ~upload.has_txn_id

\* C4: an upload without a txn_id column gets one report and nothing else
\* from tab2: no lookup, no generation call, no result, no rendered row.
C4_MissingColumnIsFatal ==
    NoColumnUpload =>
        /\ BatchOf(lookups) = <<>>
        /\ BatchOf(calls) = <<>>
        /\ BatchOf(shown) = <<>>
        /\ \A i \in 1..N : status[i] = "PENDING"
        /\ pc = "done" =>
             /\ results = <<>>
             /\ BatchOf(errors) = <<Err("batch", 0, MsgNoColumn, "", "InputFailure")>>
        /\ pc # "done" => BatchOf(errors) = <<>>

C4_Witness ==
    /\ NoColumnUpload
    /\ pc = "done"
    /\ N = 2
    /\ Has(cbs, upload.ids[1])
    /\ status[0] = "PARSED"
    /\ Len(errors) = 1

Taxonomy == {"NotFound", "GenerationFailure", "ParseFailure", "InputFailure"}

\* C7: what the user is shown for a failure (the message and the exception
\* under it) tells its kind: it never equals what was shown for a failure of
\* another kind, here one remembered from an earlier run of the session; and
\* every failed transaction has a report.
C7_ReportsIdentifyKind ==
    /\ \A k \in 1..Len(errors) :
        (/\ errors[k].kind \in Taxonomy
         /\ watch.kind \in Taxonomy
         /\ errors[k].kind # watch.kind)
            => <<errors[k].msg, errors[k].exc>> # <<watch.msg, watch.exc>>
    /\ \A i \in DOMAIN status :
        status[i] \in {"NOT_FOUND", "GENERATION_FAILED", "PARSE_FAILED"}
            => \E k \in 1..Len(errors) : errors[k].item = i

\* The ledger slot of a prompt between two pieces of the template.
Slot(p, a, b) ==
    LET ia == CHOOSE i \in 1..Len(p) : p[i] = a
        ib == CHOOSE i \in 1..Len(p) : p[i] = b
    IN  SubSeq(p, ia + 1, ib - 1)

Expected(df, id) == IF Has(df, id) THEN Str(FirstRow(df, id)) ELSE <<NA>>

MissingLedgers(id) ==
    (IF Has(mpesa, id) THEN 0 ELSE 1) + (IF Has(switch, id) THEN 0 ELSE 1)
    + (IF Has(disb, id) THEN 0 ELSE 1)

PresentRecordsHold(id, v) ==
    \E df \in {cbs, mpesa, switch, disb} : Has(df, id) /\ FirstRow(df, id).val = v

\* C8: every prompt handed to the generation service has all four ledger
\* slots; a slot holds the first row with the id, or "N/A" when the ledger
\* has none; and unless a present record itself holds "N/A", the prompt
\* holds "N/A" once per missing optional ledger.
C8_PromptMarksMissingLedgers ==
    \A k \in 1..Len(calls) :
        LET p == calls[k].prompt
            id == calls[k].txn_id
        IN  /\ \A m \in {TplHead, TplCbs, TplMpesa, TplSwitch, TplDisb, TplTail} :
                 Cardinality({i \in 1..Len(p) : p[i] = m}) = 1
            /\ Has(cbs, id)
            /\ Slot(p, TplCbs, TplMpesa) = Str(FirstRow(cbs, id))
            /\ Slot(p, TplMpesa, TplSwitch) = Expected(mpesa, id)
            /\ Slot(p, TplSwitch, TplDisb) = Expected(switch, id)
            /\ Slot(p, TplDisb, TplTail) = Expected(disb, id)
            /\ ~PresentRecordsHold(id, NA) => CountNA(p) = MissingLedgers(id)

C8_Witness ==
    \E k \in 1..Len(calls) :
        /\ calls[k].path = "batch"
        /\ Has(switch, calls[k].txn_id)
        /\ ~Has(mpesa, calls[k].txn_id)
        /\ ~Has(disb, calls[k].txn_id)
        /\ Len(cbs) = 2 /\ cbs[1].txn_id = cbs[2].txn_id /\ cbs[1].val # cbs[2].val
        /\ CountNA(calls[k].prompt) = 2

Transitions ==
    {<<"PENDING", "LOOKED_UP">>, <<"LOOKED_UP", "NOT_FOUND">>,
     <<"LOOKED_UP", "EVIDENCE_BUILT">>, <<"EVIDENCE_BUILT", "GENERATED">>,
     <<"EVIDENCE_BUILT", "GENERATION_FAILED">>, <<"GENERATED", "PARSED">>,
     <<"GENERATED", "PARSE_FAILED">>}

Terminal == {"NOT_FOUND", "PARSED", "GENERATION_FAILED", "PARSE_FAILED"}

CallsFor(log, i) == Cardinality({k \in 1..Len(log) : log[k].item = i})

\* C9: a transaction changes state only along the transitions of the state
\* machine, never leaves a terminal state, is never called for again once it
\* is terminal, and gets at most one generation call in a run.
C9_StateMachine ==
    [][\A i \in DOMAIN status :
        /\ status'[i] # status[i] => <<status[i], status'[i]>> \in Transitions
        /\ status[i] \in Terminal =>
             status'[i] = status[i] /\ CallsFor(calls', i) = CallsFor(calls, i)
        /\ CallsFor(calls', i) <= 1]_vars

C9_Witness ==
    /\ pc = "done"
    /\ N = 2
    /\ status[0] = "GENERATION_FAILED"
    /\ status[1] = "PARSED"
    /\ status[2] = "PARSE_FAILED"

Finished == {"NOT_FOUND", "GENERATED", "GENERATION_FAILED", "PARSED", "PARSE_FAILED"}

BatchRunning ==
    /\ upload.kind = "csv" /\ upload.has_txn_id
    /\ pc \in {"tab2_lookup", "tab2_check", "tab2_invoke", "tab2_render", "done"}

\* The ids of the batch rows whose generation call returned, in input order.
RECURSIVE GeneratedIdsFrom(_)
GeneratedIdsFrom(i) ==
    IF i > N THEN <<>>
    ELSE (IF Generated(i) THEN <<upload.ids[i]>> ELSE <<>>) \o GeneratedIdsFrom(i + 1)

IsPrefix(a, b) == Len(a) <= Len(b) /\ a = SubSeq(b, 1, Len(a))

\* C10: batch rows are processed one after another in input order: a row is
\* touched only when all rows before it are finished, the generation calls
\* are made in row order, results lists the generated rows in input order,
\* and the summary rows are rendered in that order.
C10_SequentialInOrder ==
    /\ \A i \in 1..N :
        status[i] # "PENDING" => \A j \in 1..(i - 1) : status[j] \in Finished
    /\ \A a, b \in 1..Len(calls) :
        (a < b /\ calls[a].path = "batch" /\ calls[b].path = "batch")
            => calls[a].item < calls[b].item
    /\ BatchRunning => IdsOf(results) = GeneratedIdsFrom(1)
    /\ BatchRunning =>
         IsPrefix(IdsOf(SelectSeq(BatchOf(shown), LAMBDA e : e.part = "summary")),
                  IdsOf(results))

C10_Witness ==
    /\ pc = "done"
    /\ upload.ids = <<"T2", "T1">>
    /\ IdsOf(results) = <<"T2", "T1">>
    /\ status[1] = "PARSED" /\ status[2] = "PARSED"

Mentions(t, label) ==
    \E m \in 1..(Len(t) - 1) : Lower(t[m]) = label /\ t[m + 1] = ":"

NamesALabel(t) == \E m \in 1..Len(t) : Lower(t[m]) \in LabelSet

\* A line break directly followed by a letter.
HasLetterLine(t) == \E m \in 1..(Len(t) - 1) : t[m] = "\n" /\ IsLetter(t[m + 1])

\* C5 as claimed: from a reply with the five sections in order,
\* extract_section returns every section's trimmed interior, whatever the
\* interior is (here: any interior that names no label).
C5_ExactInterior ==
    (missing = 0 /\ \A i \in 1..Len(Labels) : ~NamesALabel(interiors[i]))
        => \A i \in 1..Len(extracted) : extracted[i] = Strip(interiors[i])

\* C5 as amended: extract_section returns the trimmed interior of every
\* section that holds no line break directly followed by a letter and whose
\* "label:" does not occur in an earlier section.
C5_ExactInteriorUpToLetterLine ==
    missing = 0 =>
        \A i \in 1..Len(extracted) :
            (/\ ~HasLetterLine(interiors[i])
             /\ \A j \in 1..(i - 1) : ~Mentions(interiors[j], Labels[i]))
                => extracted[i] = Strip(interiors[i])

C5_Witness ==
    /\ missing = 0
    /\ Len(extracted) = Len(Labels)
    /\ interiors[2] = <<"\n", "1">>
    /\ extracted[2] = <<"1">>
    /\ extracted[5] = <<"{d}">>

LabelAbsent(i) == \A m \in 1..Len(text) : Lower(text[m]) # Labels[i]

\* C6 as claimed: for a reply without one label, extract_section returns "-"
\* for it, and for every other label what it returns for the reply with the
\* missing section in place.
C6_OthersUnaffected ==
    (missing # 0 /\ LabelAbsent(missing)) =>
        \A i \in 1..Len(extracted) :
            IF i = missing THEN extracted[i] = <<"-">>
            ELSE extracted[i] = extract_section(Labels[i], Build(interiors, 0))

\* C6 as amended: the same, except for a later label whose "label:" occurs
\* inside the section that is left out.
C6_OthersUnaffectedUnlessMentioned ==
    (missing # 0 /\ LabelAbsent(missing)) =>
        \A i \in 1..Len(extracted) :
            IF i = missing THEN extracted[i] = <<"-">>
            ELSE (i < missing \/ ~Mentions(interiors[missing], Labels[i]))
                    => extracted[i] = extract_section(Labels[i], Build(interiors, 0))

C6_Witness ==
    /\ missing = 3
    /\ LabelAbsent(3)
    /\ Len(extracted) = Len(Labels)
    /\ extracted[3] = <<"-">>
    /\ interiors[2] = <<"1", "\n">>
    /\ extracted[2] = <<"1">>

====
